---- MODULE Spec2Model ----
(***************************************************************************)
(* robottelo.vm.VirtualMachine: the life cycle of a client virtual machine *)
(* provisioned over ssh on a provisioning server.                          *)
(*                                                                         *)
(* Python strings are sequences of tokens.  The characters the code parses *)
(* on ("." "(" ")" "/") are tokens of their own; text the code only copies *)
(* is kept as one token.  None is the one-token sequence <<"None">>, which *)
(* is also what str.format() prints for it.                                *)
(***************************************************************************)
EXTENDS Integers, Sequences, FiniteSets, Bags, TLC

VARIABLES
  cpu, ram, distro, provisioning_server, image_dir,
  _hostname, _domain, _target_image,
  ip_addr, _created, _subscribed,
  issued, last, scope,
  peer

conf == <<cpu, ram, distro, provisioning_server, image_dir,
          _hostname, _domain, _target_image, peer>>

vars == <<cpu, ram, distro, provisioning_server, image_dir,
          _hostname, _domain, _target_image,
          ip_addr, _created, _subscribed, issued, last, scope, peer>>

(***************************************************************************)
(* Bounds.                                                                 *)
(***************************************************************************)
\* a method is called only while the provisioning server has received fewer
\* than MaxCmds commands
MaxCmds == 6
\* lines of standard output a reachability probe returns (one token a line)
MaxOut == 3

(***************************************************************************)
(* Python values.                                                          *)
(***************************************************************************)
None == <<"None">>

Truthy(s) == s # None /\ s # <<>>

\* a + b on strings
Cat(a, b) == a \o b

\* ''.join(lines)
RECURSIVE Join(_)
Join(lines) ==
  IF lines = <<>> THEN <<>> ELSE Head(lines) \o Join(Tail(lines))

\* sep.join(items)
RECURSIVE JoinWith(_, _)
JoinWith(sep, items) ==
  IF items = <<>> THEN <<>>
  ELSE IF Len(items) = 1 THEN Head(items)
  ELSE Head(items) \o sep \o JoinWith(sep, Tail(items))

\* position of the first token equal to sep in s, 0 when there is none
RECURSIVE Find(_, _, _)
Find(s, sep, i) ==
  IF i > Len(s) THEN 0
  ELSE IF s[i] = sep THEN i
  ELSE Find(s, sep, i + 1)

\* s.split(sep): the pieces of s between the occurrences of sep
RECURSIVE Split(_, _)
Split(s, sep) ==
  LET i == Find(s, sep, 1)
  IN  IF i = 0 THEN <<s>>
      ELSE <<SubSeq(s, 1, i - 1)>> \o Split(SubSeq(s, i + 1, Len(s)), sep)

\* s.split(sep, 1): s cut at the first occurrence of sep only
Split1(s, sep) ==
  LET i == Find(s, sep, 1)
  IN  IF i = 0 THEN <<s>>
      ELSE <<SubSeq(s, 1, i - 1), SubSeq(s, i + 1, Len(s))>>

\* os.path.join(a, b) on a POSIX host
os_path_join(a, b) ==
  IF b # <<>> /\ Head(b) = "/" THEN b
  ELSE IF a = <<>> \/ a[Len(a)] = "/" THEN a \o b
  ELSE a \o <<"/">> \o b

(***************************************************************************)
(* Construction.                                                           *)
(***************************************************************************)
VirtualMachineError == "VirtualMachineError"

\* str(id(self)): the text of the identity of instance n
str_id(n) == <<"id", n>>

\* __init__ without its check of the distro
__init___any_distro(a, st) ==
  LET distro_el6 == st.image_el6
      distro_el7 == st.image_el7
      d1 == IF a.distro = <<"rhel6">> THEN distro_el6 ELSE a.distro
      d2 == IF d1 = <<"rhel7">> THEN distro_el7 ELSE d1
      d3 == IF d2 = None THEN distro_el7 ELSE d2
      ps == IF a.provisioning_server = None
            THEN st.provisioning_server ELSE a.provisioning_server
      dir == IF a.image_dir = None THEN st.image_dir ELSE a.image_dir
      ti == IF Truthy(a.target_image) THEN a.target_image ELSE str_id(a.id)
      self == [cpu |-> a.cpu, ram |-> a.ram, distro |-> d3,
               provisioning_server |-> ps, image_dir |-> dir,
               _hostname |-> a.hostname, ip_addr |-> None,
               _domain |-> a.domain, _created |-> FALSE,
               _subscribed |-> FALSE,
               _target_image |-> IF Truthy(a.tag) THEN Cat(a.tag, ti) ELSE ti]
  IN  IF ps = None \/ ps = <<>>
        THEN [raised |-> VirtualMachineError, self |-> self]
      ELSE [raised |-> "none", self |-> self]

\* __init__ without its check of the provisioning server
__init___any_server(a, st) ==
  LET distro_el6 == st.image_el6
      distro_el7 == st.image_el7
      d1 == IF a.distro = <<"rhel6">> THEN distro_el6 ELSE a.distro
      d2 == IF d1 = <<"rhel7">> THEN distro_el7 ELSE d1
      d3 == IF d2 = None THEN distro_el7 ELSE d2
      ps == IF a.provisioning_server = None
            THEN st.provisioning_server ELSE a.provisioning_server
      dir == IF a.image_dir = None THEN st.image_dir ELSE a.image_dir
      ti == IF Truthy(a.target_image) THEN a.target_image ELSE str_id(a.id)
      self == [cpu |-> a.cpu, ram |-> a.ram, distro |-> d3,
               provisioning_server |-> ps, image_dir |-> dir,
               _hostname |-> a.hostname, ip_addr |-> None,
               _domain |-> a.domain, _created |-> FALSE,
               _subscribed |-> FALSE,
               _target_image |-> IF Truthy(a.tag) THEN Cat(a.tag, ti) ELSE ti]
  IN  IF d3 \notin {distro_el6, distro_el7}
        THEN [raised |-> VirtualMachineError, self |-> self]
      ELSE [raised |-> "none", self |-> self]

\* VirtualMachine.__init__: a are the arguments, st the settings read
__init__(a, st) ==
  LET distro_el6 == st.image_el6
      distro_el7 == st.image_el7
      d1 == IF a.distro = <<"rhel6">> THEN distro_el6 ELSE a.distro
      d2 == IF d1 = <<"rhel7">> THEN distro_el7 ELSE d1
      d3 == IF d2 = None THEN distro_el7 ELSE d2
      ps == IF a.provisioning_server = None
            THEN st.provisioning_server ELSE a.provisioning_server
      dir == IF a.image_dir = None THEN st.image_dir ELSE a.image_dir
      ti == IF Truthy(a.target_image) THEN a.target_image ELSE str_id(a.id)
      self == [cpu |-> a.cpu, ram |-> a.ram, distro |-> d3,
               provisioning_server |-> ps, image_dir |-> dir,
               _hostname |-> a.hostname, ip_addr |-> None,
               _domain |-> a.domain, _created |-> FALSE,
               _subscribed |-> FALSE,
               _target_image |-> IF Truthy(a.tag) THEN Cat(a.tag, ti) ELSE ti]
  IN  IF d3 \notin {distro_el6, distro_el7}
        THEN [raised |-> VirtualMachineError, self |-> self]
      ELSE IF ps = None \/ ps = <<>>
        THEN [raised |-> VirtualMachineError, self |-> self]
      ELSE [raised |-> "none", self |-> self]

(***************************************************************************)
(* Properties.  A property either returns val or raises.                   *)
(***************************************************************************)
\* domain giving an empty domain where none can be derived
domain_or_empty(self) ==
  IF self._domain = None
    THEN LET parts == Split1(self.provisioning_server, ".")
         IN  IF Len(parts) < 2
               THEN [raised |-> "none", val |-> <<>>]
               ELSE [raised |-> "none", val |-> parts[2]]
    ELSE [raised |-> "none", val |-> self._domain]

\* VirtualMachine.domain
domain(self) ==
  IF self._domain = None
    THEN LET parts == Split1(self.provisioning_server, ".")
         IN  IF Len(parts) < 2
               THEN [raised |-> VirtualMachineError, val |-> None]
               ELSE [raised |-> "none", val |-> parts[2]]
    ELSE [raised |-> "none", val |-> self._domain]

\* VirtualMachine.hostname
hostname(self) ==
  IF Truthy(self._hostname)
    THEN [raised |-> "none", val |-> self._hostname]
    ELSE LET d == domain(self)
         IN  IF d.raised # "none" THEN d
             ELSE [raised |-> "none",
                   val |-> self._target_image \o <<".">> \o d.val]

\* VirtualMachine.target_image
target_image(self) ==
  IF Truthy(self._hostname)
    THEN [raised |-> "none", val |-> self._target_image]
    ELSE hostname(self)

(***************************************************************************)
(* The remote-execution collaborator (robottelo.ssh).  A call is recorded  *)
(* as the command text and the host it is sent to; what it returns is an   *)
(* input of the operation that makes the call.                             *)
(***************************************************************************)
\* the call ssh.command(cmd, hostname)
ssh_command(cmd, host) == [cmd |-> cmd, hostname |-> host]

\* the call ssh.download_file(remote_path, local_path, hostname)
ssh_download_file(remote_path, local_path, host) ==
  [cmd |-> <<"download_file ">> \o remote_path \o <<" ">> \o local_path,
   hostname |-> host]

\* the call ssh.upload_file(local_path, remote_path, hostname)
ssh_upload_file(local_path, remote_path, host) ==
  [cmd |-> <<"upload_file ">> \o local_path \o <<" ">> \o remote_path,
   hostname |-> host]

\* an SSHCommandResult
SSHCommandResult(rc, out) == [return_code |-> rc, stdout |-> out]

\* what a method that returns nothing returns
NoResult == [return_code |-> -1, stdout |-> <<>>]

(***************************************************************************)
(* The outcome of a method call: the object afterwards, the exception      *)
(* raised ("none" when it returns), the remote calls made with the replies *)
(* received, the value returned, the methods entered and, where a helper   *)
(* raises VirtualMachineError itself, the message of the exception;        *)
(* anchors are the calls made to the katello-ca functions of               *)
(* robottelo.helpers, each with the hostname it was given and with what it *)
(* raised.                                                                 *)
(***************************************************************************)
Out(self, raised, cmds, replies, ret, calls) ==
  [self |-> self, raised |-> raised, cmds |-> cmds, replies |-> replies,
   ret |-> ret, calls |-> calls, msg |-> <<>>, anchors |-> <<>>]

\* the outcome o seen by the method m that made the call
Within(m, o) == [o EXCEPT !.calls = <<m>> \o @]

\* the outcome o followed by the outcome p of the next statement, which is
\* not reached when o raised
Then(o, p) ==
  IF o.raised # "none" THEN o
  ELSE [p EXCEPT !.cmds = o.cmds \o @, !.replies = o.replies \o @,
                 !.calls = o.calls \o @, !.anchors = o.anchors \o @]

\* raise VirtualMachineError(msg) after the outcome o
Raise(o, msg) ==
  [o EXCEPT !.raised = VirtualMachineError, !.ret = NoResult, !.msg = msg]

\* return None after the outcome o
ReturnNone(o) == [o EXCEPT !.ret = NoResult]

(***************************************************************************)
(* VirtualMachine.create                                                   *)
(***************************************************************************)
\* the snap-guest command line built by create
snap_guest_command(self, t, h, d) ==
  <<"snap-guest">>
    \o <<" -b ">> \o self.distro \o <<"-base">>
    \o <<" -t ">> \o t
    \o <<" -m ">> \o self.ram
    \o <<" -c ">> \o self.cpu
    \o <<" -n bridge=br0 -f">>
    \o (IF self.image_dir # None THEN <<" -p ">> \o self.image_dir ELSE <<>>)
    \o (IF self._hostname # None THEN <<" --hostname ">> \o h ELSE <<>>)
    \o (IF self._domain # None THEN <<" -d ">> \o d ELSE <<>>)

\* the address taken from the probe output: output.split('(')[1].split(')')[0]
\* raises IndexError when the output holds no '('
parse_ip_addr(output) ==
  LET parts == Split(output, "(")
  IN  IF Len(parts) < 2
        THEN [raised |-> "IndexError", val |-> None]
        ELSE [raised |-> "none", val |-> Split(parts[2], ")")[1]]

\* create_body reading the probe output whatever the exit code of the probe
create_body_probe_unchecked(self, r1, r2) ==
  LET t == target_image(self)
      h == hostname(self)
      d == domain(self)
  IN  IF t.raised # "none" \/ h.raised # "none" \/ d.raised # "none"
        THEN Out(self, VirtualMachineError, <<>>, <<>>, NoResult,
                 <<"create">>)
      ELSE
        LET c1 == ssh_command(snap_guest_command(self, t.val, h.val, d.val),
                              self.provisioning_server)
            c2 == ssh_command(<<"ping -c 1 ">> \o self._target_image
                                \o <<".local">>,
                              self.provisioning_server)
            ip == parse_ip_addr(Join(r2.stdout))
        IN  IF r1.return_code # 0
              THEN Out(self, VirtualMachineError, <<c1>>, <<r1>>, NoResult,
                       <<"create">>)
            ELSE IF ip.raised # "none"
              THEN Out(self, ip.raised, <<c1, c2>>, <<r1, r2>>, NoResult,
                       <<"create">>)
            ELSE Out([self EXCEPT !.ip_addr = ip.val, !._created = TRUE],
                     "none", <<c1, c2>>, <<r1, r2>>, NoResult, <<"create">>)

\* create past its guard: r1 is the reply to snap-guest, r2 to ping
create_body(self, r1, r2) ==
  LET t == target_image(self)
      h == hostname(self)
      d == domain(self)
  IN  IF t.raised # "none"
        THEN Out(self, t.raised, <<>>, <<>>, NoResult, <<"create">>)
      ELSE IF h.raised # "none"
        THEN Out(self, h.raised, <<>>, <<>>, NoResult, <<"create">>)
      ELSE IF d.raised # "none"
        THEN Out(self, d.raised, <<>>, <<>>, NoResult, <<"create">>)
      ELSE
        LET c1 == ssh_command(snap_guest_command(self, t.val, h.val, d.val),
                              self.provisioning_server)
            c2 == ssh_command(<<"ping -c 1 ">> \o self._target_image
                                \o <<".local">>,
                              self.provisioning_server)
            ip == parse_ip_addr(Join(r2.stdout))
        IN  IF r1.return_code # 0
              THEN Out(self, VirtualMachineError, <<c1>>, <<r1>>, NoResult,
                       <<"create">>)
            ELSE IF r2.return_code # 0
              THEN Out(self, VirtualMachineError, <<c1, c2>>, <<r1, r2>>,
                       NoResult, <<"create">>)
            ELSE IF ip.raised # "none"
              THEN Out(self, ip.raised, <<c1, c2>>, <<r1, r2>>, NoResult,
                       <<"create">>)
            ELSE Out([self EXCEPT !.ip_addr = ip.val, !._created = TRUE],
                     "none", <<c1, c2>>, <<r1, r2>>, NoResult, <<"create">>)

\* create without its guard on _created
create_unguarded(self, r1, r2) == create_body(self, r1, r2)

create(self, r1, r2) ==
  IF self._created
    THEN Out(self, "none", <<>>, <<>>, NoResult, <<"create">>)
    ELSE create_body(self, r1, r2)

(***************************************************************************)
(* VirtualMachine.run, get, put, unregister                                *)
(***************************************************************************)
\* run without its guard on _created
run_unguarded(self, cmd, r) ==
  Out(self, "none", <<ssh_command(cmd, self.ip_addr)>>, <<r>>, r, <<"run">>)

run(self, cmd, r) ==
  IF ~self._created
    THEN Out(self, VirtualMachineError, <<>>, <<>>, NoResult, <<"run">>)
    ELSE Out(self, "none", <<ssh_command(cmd, self.ip_addr)>>, <<r>>, r,
             <<"run">>)

get(self, remote_path, local_path) ==
  IF ~self._created
    THEN Out(self, VirtualMachineError, <<>>, <<>>, NoResult, <<"get">>)
    ELSE Out(self, "none",
             <<ssh_download_file(remote_path, local_path, self.ip_addr)>>,
             <<NoResult>>, NoResult, <<"get">>)

\* put without its guard on _created
put_unguarded(self, local_path, remote_path) ==
  Out(self, "none",
      <<ssh_upload_file(local_path, remote_path, self.ip_addr)>>,
      <<NoResult>>, NoResult, <<"put">>)

put(self, local_path, remote_path) ==
  IF ~self._created
    THEN Out(self, VirtualMachineError, <<>>, <<>>, NoResult, <<"put">>)
    ELSE Out(self, "none",
             <<ssh_upload_file(local_path, remote_path, self.ip_addr)>>,
             <<NoResult>>, NoResult, <<"put">>)

\* unregister clearing _subscribed
unregister_clearing(self, r) ==
  [Within("unregister", run(self, <<"subscription-manager unregister">>, r))
     EXCEPT !.self._subscribed = FALSE]

unregister(self, r) ==
  Within("unregister", run(self, <<"subscription-manager unregister">>, r))

(***************************************************************************)
(* VirtualMachine.register_contenthost                                     *)
(***************************************************************************)
\* settings.server.admin_username and settings.server.admin_password
admin_username == <<"admin">>
admin_password == <<"changeme">>

\* register_contenthost without its check that a strategy is given
register_contenthost_unchecked(self, org, activation_key, lce, force, releasever, r) ==
  LET cmd0 == <<"subscription-manager register --org ">> \o org
      cmd1 == IF activation_key # None
                THEN cmd0 \o <<" --activationkey ">> \o activation_key
                ELSE cmd0 \o <<" --environment ">> \o lce
                       \o <<" --username ">> \o admin_username
                       \o <<" --password ">> \o admin_password
      cmd2 == IF releasever # None
                THEN cmd1 \o <<" --release ">> \o releasever ELSE cmd1
      cmd3 == IF force THEN cmd2 \o <<" --force">> ELSE cmd2
      o == Within("register_contenthost", run(self, cmd3, r))
  IN  IF o.raised # "none" THEN o
      ELSE IF o.ret.return_code = 0
        THEN [o EXCEPT !.self._subscribed = TRUE]
      ELSE o

\* register_contenthost setting _subscribed whatever the exit code is
register_contenthost_any_code(self, org, activation_key, lce, force, releasever, r) ==
  LET cmd0 == <<"subscription-manager register --org ">> \o org
      cmd1 == IF activation_key # None
                THEN cmd0 \o <<" --activationkey ">> \o activation_key
                ELSE cmd0 \o <<" --environment ">> \o lce
                       \o <<" --username ">> \o admin_username
                       \o <<" --password ">> \o admin_password
      cmd2 == IF releasever # None
                THEN cmd1 \o <<" --release ">> \o releasever ELSE cmd1
      cmd3 == IF force THEN cmd2 \o <<" --force">> ELSE cmd2
      o == Within("register_contenthost", run(self, cmd3, r))
  IN  IF activation_key = None /\ lce = None
        THEN Out(self, VirtualMachineError, <<>>, <<>>, NoResult,
                 <<"register_contenthost">>)
      ELSE IF o.raised # "none" THEN o
      ELSE [o EXCEPT !.self._subscribed = TRUE]

register_contenthost(self, org, activation_key, lce, force, releasever, r) ==
  LET cmd0 == <<"subscription-manager register --org ">> \o org
      cmd1 == IF activation_key # None
                THEN cmd0 \o <<" --activationkey ">> \o activation_key
                ELSE cmd0 \o <<" --environment ">> \o lce
                       \o <<" --username ">> \o admin_username
                       \o <<" --password ">> \o admin_password
      cmd2 == IF releasever # None
                THEN cmd1 \o <<" --release ">> \o releasever ELSE cmd1
      cmd3 == IF force THEN cmd2 \o <<" --force">> ELSE cmd2
      o == Within("register_contenthost", run(self, cmd3, r))
  IN  IF activation_key = None /\ lce = None
        THEN Out(self, VirtualMachineError, <<>>, <<>>, NoResult,
                 <<"register_contenthost">>)
      ELSE IF o.raised # "none" THEN o
      ELSE IF o.ret.return_code = 0
        THEN [o EXCEPT !.self._subscribed = TRUE]
      ELSE o

(***************************************************************************)
(* VirtualMachine.destroy                                                  *)
(***************************************************************************)
\* destroy_body naming the machine by _target_image, not by target_image
destroy_body_raw_name(self, rs) ==
  LET u == IF self._subscribed
             THEN unregister(self, rs[1])
             ELSE Out(self, "none", <<>>, <<>>, NoResult, <<>>)
      t == [raised |-> "none", val |-> self._target_image]
      c1 == ssh_command(<<"virsh destroy ">> \o t.val,
                        self.provisioning_server)
      c2 == ssh_command(<<"virsh undefine ">> \o t.val,
                        self.provisioning_server)
      image_name == t.val \o <<".img">>
      c3 == ssh_command(<<"rm ">> \o os_path_join(self.image_dir, image_name),
                        self.provisioning_server)
      calls == <<"destroy">> \o u.calls
  IN  IF u.raised # "none"
        THEN Out(self, u.raised, u.cmds, u.replies, NoResult, calls)
      ELSE IF t.raised # "none"
        THEN Out(self, t.raised, u.cmds, u.replies, NoResult, calls)
      ELSE IF self.image_dir = None
        \* os.path.join(None, image_name) raises TypeError
        THEN Out(self, "TypeError", u.cmds \o <<c1, c2>>,
                 u.replies \o <<rs[2], rs[3]>>, NoResult, calls)
      ELSE Out(self, "none", u.cmds \o <<c1, c2, c3>>,
               u.replies \o <<rs[2], rs[3], rs[4]>>, NoResult, calls)

\* destroy past its guard: rs are the replies to the unregistration (read
\* only when subscribed), virsh destroy, virsh undefine and rm
destroy_body(self, rs) ==
  LET u == IF self._subscribed
             THEN unregister(self, rs[1])
             ELSE Out(self, "none", <<>>, <<>>, NoResult, <<>>)
      t == target_image(self)
      c1 == ssh_command(<<"virsh destroy ">> \o t.val,
                        self.provisioning_server)
      c2 == ssh_command(<<"virsh undefine ">> \o t.val,
                        self.provisioning_server)
      image_name == t.val \o <<".img">>
      c3 == ssh_command(<<"rm ">> \o os_path_join(self.image_dir, image_name),
                        self.provisioning_server)
      calls == <<"destroy">> \o u.calls
  IN  IF u.raised # "none"
        THEN Out(self, u.raised, u.cmds, u.replies, NoResult, calls)
      ELSE IF t.raised # "none"
        THEN Out(self, t.raised, u.cmds, u.replies, NoResult, calls)
      ELSE IF self.image_dir = None
        \* os.path.join(None, image_name) raises TypeError
        THEN Out(self, "TypeError", u.cmds \o <<c1, c2>>,
                 u.replies \o <<rs[2], rs[3]>>, NoResult, calls)
      ELSE Out(self, "none", u.cmds \o <<c1, c2, c3>>,
               u.replies \o <<rs[2], rs[3], rs[4]>>, NoResult, calls)

\* destroy without its guard on _created
destroy_unguarded(self, rs) == destroy_body(self, rs)

destroy(self, rs) ==
  IF ~self._created
    THEN Out(self, "none", <<>>, <<>>, NoResult, <<"destroy">>)
    ELSE destroy_body(self, rs)

(***************************************************************************)
(* Use as a context manager: with vm: body.  Python calls __exit__ when    *)
(* the body is left, normally or by an exception, and only if __enter__    *)
(* returned.                                                               *)
(***************************************************************************)
__enter__(self, r1, r2) == Within("__enter__", create(self, r1, r2))

\* exc is what the body raised; __exit__ returns None, so exc propagates
__exit__(self, exc, rs) == Within("__exit__", destroy(self, rs))

(***************************************************************************)
(* The helpers that configure the machine.  rs are the replies to the      *)
(* commands of a helper, in the order in which it runs them.               *)
(***************************************************************************)
download_install_rpm(self, repo_url, package_name, rs) ==
  LET o1 == run(self, <<"wget -nd -r -l1 --no-parent -A '">> \o package_name
                        \o <<".rpm' ">> \o repo_url, rs[1])
      o2 == Then(o1, run(o1.self, <<"rpm -i ">> \o package_name
                                    \o <<".rpm">>, rs[2]))
      o3 == Then(o2, run(o2.self, <<"rpm -q ">> \o package_name, rs[3]))
      o == Within("download_install_rpm", o3)
  IN  IF o.raised # "none" THEN o
      ELSE IF o.ret.return_code # 0
        THEN Raise(o, <<"Failed to install ">> \o package_name \o <<" rpm.">>)
      ELSE ReturnNone(o)

\* install_katello_agent without its check of rpm -q
install_katello_agent_unchecked(self, rs) ==
  LET o1 == run(self, <<"yum install -y katello-agent">>, rs[1])
      o2 == Then(o1, run(o1.self, <<"rpm -q katello-agent">>, rs[2]))
      o == Within("install_katello_agent", o2)
  IN  IF o.raised # "none" THEN o ELSE ReturnNone(o)

install_katello_agent(self, rs) ==
  LET o1 == run(self, <<"yum install -y katello-agent">>, rs[1])
      o2 == Then(o1, run(o1.self, <<"rpm -q katello-agent">>, rs[2]))
      o == Within("install_katello_agent", o2)
  IN  IF o.raised # "none" THEN o
      ELSE IF o.ret.return_code # 0
        THEN Raise(o, <<"Failed to install katello-agent">>)
      ELSE ReturnNone(o)

\* robottelo.helpers.install_katello_ca(hostname=self.ip_addr) either
\* returns (k = "none") or raises AssertionError
install_katello_ca(self, k) ==
  LET o == [Out(self, "none", <<>>, <<>>, NoResult,
                <<"install_katello_ca", "helpers.install_katello_ca">>)
              EXCEPT !.anchors = <<[fn |-> "install_katello_ca",
                                    hostname |-> self.ip_addr,
                                    raised |-> k]>>]
  IN  IF k = "AssertionError"
        THEN Raise(o, <<"Failed to download and install the katello-ca rpm">>)
        ELSE o

\* robottelo.helpers.remove_katello_ca(hostname=self.ip_addr) either returns
\* (k = "none") or raises AssertionError
remove_katello_ca(self, k) ==
  LET o == [Out(self, "none", <<>>, <<>>, NoResult,
                <<"remove_katello_ca", "helpers.remove_katello_ca">>)
              EXCEPT !.anchors = <<[fn |-> "remove_katello_ca",
                                    hostname |-> self.ip_addr,
                                    raised |-> k]>>]
  IN  IF k = "AssertionError"
        THEN Raise(o, <<"Failed to remove the katello-ca rpm">>)
        ELSE o

configure_rhel_repo(self, rhel_repo, r) ==
  Within("configure_rhel_repo",
         ReturnNone(run(self, <<"wget -O /etc/yum.repos.d/rhel.repo ">>
                                \o rhel_repo, r)))

\* settings.server.hostname, which is also the host ssh.command runs on
\* when it is given none
server_hostname == <<"sat6", ".", "example">>

configure_puppet(self, rhel_repo, rs) ==
  LET sat6_hostname == server_hostname
      o1 == configure_rhel_repo(self, rhel_repo, rs[1])
      puppet_conf == <<"pluginsync = true\nreport = true\n",
                       "ignoreschedules = true\ndaemon = false\n",
                       "ca_server = ">> \o sat6_hostname
                       \o <<"\nserver = ">> \o sat6_hostname \o <<"\n">>
      o2 == Then(o1, run(o1.self, <<"yum install puppet -y">>, rs[2]))
      o3 == Then(o2, run(o2.self, <<"echo \"">> \o puppet_conf
                                    \o <<"\" >> /etc/puppet/puppet.conf">>,
                         rs[3]))
      o4 == Then(o3, run(o3.self, <<"puppet agent -t">>, rs[4]))
      o5 == Then(o4, Out(o4.self, "none",
                         <<ssh_command(<<"puppet cert sign --all">>,
                                       server_hostname)>>,
                         <<rs[5]>>, rs[5], <<"ssh.command">>))
      o6 == Then(o5, run(o5.self, <<"puppet agent -t 2> /dev/null">>, rs[6]))
  IN  IF o2.raised # "none" THEN Within("configure_puppet", o2)
      ELSE IF o2.ret.return_code # 0
        THEN Raise(Within("configure_puppet", o2),
                   <<"Failed to install the puppet rpm">>)
      ELSE Within("configure_puppet", ReturnNone(o6))

\* execute_foreman_scap_client: rs[1] is the reply to awk, run only when no
\* policy_id is passed, rs[2] the reply to foreman_scap_client; result is
\* bound by the awk branch only
execute_foreman_scap_client(self, policy_id, rs) ==
  LET m == "execute_foreman_scap_client"
      o1 == run(self, <<"awk -F \"/\" '/download_path/ {print $4}' ",
                        "/etc/foreman_scap_client/config.yaml">>, rs[1])
      id == IF policy_id = None THEN o1.ret.stdout[1] ELSE policy_id
      o0 == Out(self, "none", <<>>, <<>>, NoResult, <<>>)
      before == IF policy_id = None THEN o1 ELSE o0
      o2 == Then(before, run(before.self, <<"foreman_scap_client ">> \o id,
                             rs[2]))
  IN  IF before.raised # "none" THEN Within(m, before)
      ELSE IF policy_id = None /\ o1.ret.stdout = <<>>
        THEN [Within(m, ReturnNone(o1)) EXCEPT !.raised = "IndexError"]
      ELSE IF o2.raised # "none" THEN Within(m, o2)
      ELSE IF policy_id # None
        THEN [Within(m, ReturnNone(o2)) EXCEPT !.raised = "UnboundLocalError"]
      ELSE IF o1.ret.return_code # 0
        THEN Raise(Within(m, o2),
                   <<"Failed to execute foreman_scap_client run.">>)
      ELSE Within(m, ReturnNone(o2))

\* robottelo.constants.DISTRO_RHEL6 and DISTRO_RHEL7
DISTRO_RHEL6 == <<"rhel6">>
DISTRO_RHEL7 == <<"rhel7">>

\* settings.rhel6_repo, settings.rhel7_repo and the repositories of the
\* insights client in settings.rhai; no RHEL 7 repository is configured
rhel6_repo == <<"http://repo/rhel6">>
rhel7_repo == None
insights_client_el6repo == <<"http://repo/insights6">>
insights_client_el7repo == <<"http://repo/insights7">>

\* configure_rhai_client configuring the RHEL repository before it registers
configure_rhai_client_repo_first(self, activation_key, org, rhel_distro, k, rs) ==
  LET o1 == install_katello_ca(self, k)
      bound == rhel_distro \in {DISTRO_RHEL6, DISTRO_RHEL7}
      rhel_repo == IF rhel_distro = DISTRO_RHEL7 THEN rhel7_repo
                   ELSE rhel6_repo
      insights_repo == IF rhel_distro = DISTRO_RHEL7
                         THEN insights_client_el7repo
                         ELSE insights_client_el6repo
      missing_repos ==
        (IF insights_repo = None THEN <<<<"RHAI client">>>> ELSE <<>>)
          \o (IF rhel_repo = None THEN <<<<"RHEL">>>> ELSE <<>>)
      o2 == Then(o1, configure_rhel_repo(o1.self, rhel_repo, rs[2]))
      o3 == Then(o2, register_contenthost(o2.self, org, activation_key, None,
                                          FALSE, None, rs[1]))
      o4 == Then(o3, run(o3.self,
                         <<"wget -O /etc/yum.repos.d/insights.repo ">>
                           \o insights_repo, rs[3]))
      o5 == Then(o4, run(o4.self,
                         <<"yum install -y ", "redhat-access-insights">>,
                         rs[4]))
      o6 == Then(o5, run(o5.self, <<"rpm -qi ", "redhat-access-insights">>,
                         rs[5]))
      o7 == Then(o6, run(o6.self, <<"redhat-access-insights --register">>,
                         rs[6]))
      unable == <<"Unable to install redhat-access-insights package">>
      m == "configure_rhai_client"
  IN  IF o3.raised # "none" THEN Within(m, o3)
      ELSE IF ~bound
        THEN [Within(m, ReturnNone(o3)) EXCEPT !.raised = "UnboundLocalError"]
      ELSE IF missing_repos # <<>>
        THEN Raise(Within(m, o3),
                   <<"Missing ">> \o JoinWith(<<" and ">>, missing_repos)
                     \o <<" repository configuration for ">> \o rhel_distro
                     \o <<".">>)
      ELSE IF o5.raised # "none" THEN Within(m, o5)
      ELSE IF o5.ret.return_code # 0 THEN Raise(Within(m, o5), unable)
      ELSE IF o6.raised # "none" THEN Within(m, o6)
      ELSE IF o6.ret.return_code # 0 THEN Raise(Within(m, o6), unable)
      ELSE IF o7.raised # "none" THEN Within(m, o7)
      ELSE IF o7.ret.return_code # 0
        THEN Raise(Within(m, o7),
                   <<"Unable to register client to Access Insights through ",
                     "Satellite">>)
      ELSE Within(m, ReturnNone(o7))

\* configure_rhai_client: k is what helpers.install_katello_ca does; a
\* rhel_distro that is neither constant leaves rhel_repo and insights_repo
\* unbound
configure_rhai_client(self, activation_key, org, rhel_distro, k, rs) ==
  LET o1 == install_katello_ca(self, k)
      o2 == Then(o1, register_contenthost(o1.self, org, activation_key, None,
                                          FALSE, None, rs[1]))
      bound == rhel_distro \in {DISTRO_RHEL6, DISTRO_RHEL7}
      rhel_repo == IF rhel_distro = DISTRO_RHEL7 THEN rhel7_repo
                   ELSE rhel6_repo
      insights_repo == IF rhel_distro = DISTRO_RHEL7
                         THEN insights_client_el7repo
                         ELSE insights_client_el6repo
      missing_repos ==
        (IF insights_repo = None THEN <<<<"RHAI client">>>> ELSE <<>>)
          \o (IF rhel_repo = None THEN <<<<"RHEL">>>> ELSE <<>>)
      o3 == Then(o2, configure_rhel_repo(o2.self, rhel_repo, rs[2]))
      o4 == Then(o3, run(o3.self,
                         <<"wget -O /etc/yum.repos.d/insights.repo ">>
                           \o insights_repo, rs[3]))
      o5 == Then(o4, run(o4.self,
                         <<"yum install -y ", "redhat-access-insights">>,
                         rs[4]))
      o6 == Then(o5, run(o5.self, <<"rpm -qi ", "redhat-access-insights">>,
                         rs[5]))
      o7 == Then(o6, run(o6.self, <<"redhat-access-insights --register">>,
                         rs[6]))
      unable == <<"Unable to install redhat-access-insights package">>
      m == "configure_rhai_client"
  IN  IF o2.raised # "none" THEN Within(m, o2)
      ELSE IF ~bound
        THEN [Within(m, ReturnNone(o2)) EXCEPT !.raised = "UnboundLocalError"]
      ELSE IF missing_repos # <<>>
        THEN Raise(Within(m, o2),
                   <<"Missing ">> \o JoinWith(<<" and ">>, missing_repos)
                     \o <<" repository configuration for ">> \o rhel_distro
                     \o <<".">>)
      ELSE IF o5.raised # "none" THEN Within(m, o5)
      ELSE IF o5.ret.return_code # 0 THEN Raise(Within(m, o5), unable)
      ELSE IF o6.raised # "none" THEN Within(m, o6)
      ELSE IF o6.ret.return_code # 0 THEN Raise(Within(m, o6), unable)
      ELSE IF o7.raised # "none" THEN Within(m, o7)
      ELSE IF o7.ret.return_code # 0
        THEN Raise(Within(m, o7),
                   <<"Unable to register client to Access Insights through ",
                     "Satellite">>)
      ELSE Within(m, ReturnNone(o7))

(***************************************************************************)
(* Inputs.                                                                 *)
(***************************************************************************)
\* exit codes of a remote command
RC == {0, 1}

\* replies to a command whose output is not read
Results == {SSHCommandResult(rc, <<>>) : rc \in RC}

\* tokens of the output of the reachability probe
ProbeChars == {"(", ")", "1"}

\* standard output of the probe: up to MaxOut lines of one token each
ProbeStdouts ==
  UNION {[1..n -> {<<c>> : c \in ProbeChars}] : n \in 0..MaxOut}

\* replies to the probe
ProbeResults ==
  {SSHCommandResult(0, out) : out \in ProbeStdouts}
    \cup {SSHCommandResult(1, <<>>)}

\* the default arguments of __init__ and a complete configuration
DefaultArgs ==
  [cpu |-> <<"1">>, ram |-> <<"512">>, distro |-> None,
   provisioning_server |-> None, image_dir |-> None, tag |-> None,
   hostname |-> None, domain |-> None, target_image |-> None, id |-> "1"]

DefaultSettings ==
  [image_el6 |-> <<"rhel66">>, image_el7 |-> <<"rhel71">>,
   provisioning_server |-> <<"prov", ".", "example">>,
   image_dir |-> <<"/", "images">>]

\* the machines of Spec: the default one, and those that depart from it by
\* a host name, by a domain, by a provisioning server without a domain, or
\* by having no image directory
InitCases ==
  { <<DefaultArgs, DefaultSettings>>,
    <<[DefaultArgs EXCEPT !.hostname = <<"client">>], DefaultSettings>>,
    <<[DefaultArgs EXCEPT !.domain = <<"lab">>], DefaultSettings>>,
    <<DefaultArgs,
      [DefaultSettings EXCEPT !.provisioning_server = <<"prov">>]>>,
    <<DefaultArgs, [DefaultSettings EXCEPT !.image_dir = None]>> }

(***************************************************************************)
(* State.  issued is the bag of the commands the provisioning server has   *)
(* received; last is the outcome of the last method call (exc: what the    *)
(* body of the with statement raised, for __exit__); scope tells whether   *)
(* the caller is inside a with statement on the machine.                   *)
(***************************************************************************)
Self ==
  [cpu |-> cpu, ram |-> ram, distro |-> distro,
   provisioning_server |-> provisioning_server, image_dir |-> image_dir,
   _hostname |-> _hostname, ip_addr |-> ip_addr, _domain |-> _domain,
   _created |-> _created, _subscribed |-> _subscribed,
   _target_image |-> _target_image]

\* the calls of cmds that go to the provisioning server, as a bag
RECURSIVE ToServer(_, _)
ToServer(cmds, server) ==
  IF cmds = <<>> THEN EmptyBag
  ELSE (IF Head(cmds).hostname = server
          THEN SetToBag({Head(cmds)}) ELSE EmptyBag)
         (+) ToServer(Tail(cmds), server)

Constructed(a, st) ==
  LET o == __init__(a, st) IN
  /\ o.raised = "none"
  /\ cpu = o.self.cpu
  /\ ram = o.self.ram
  /\ distro = o.self.distro
  /\ provisioning_server = o.self.provisioning_server
  /\ image_dir = o.self.image_dir
  /\ _hostname = o.self._hostname
  /\ _domain = o.self._domain
  /\ _target_image = o.self._target_image
  /\ ip_addr = o.self.ip_addr
  /\ _created = o.self._created
  /\ _subscribed = o.self._subscribed
  /\ issued = EmptyBag
  /\ last = [op |-> "__init__", raised |-> "none", cmds |-> <<>>,
             replies |-> <<>>, ret |-> NoResult, calls |-> <<"__init__">>,
             exc |-> "none", args |-> [a |-> a, st |-> st], msg |-> <<>>,
             anchors |-> <<>>]
  /\ scope = "outside"
  /\ peer = <<>>

Init == \E c \in InitCases : Constructed(c[1], c[2])

\* the state after the method call op, made with the arguments args, with
\* outcome o
CommitCall(op, o, exc, args) ==
  /\ ip_addr' = o.self.ip_addr
  /\ _created' = o.self._created
  /\ _subscribed' = o.self._subscribed
  /\ issued' = issued (+) ToServer(o.cmds, provisioning_server)
  /\ last' = [op |-> op, raised |-> o.raised, cmds |-> o.cmds,
              replies |-> o.replies, ret |-> o.ret, calls |-> o.calls,
              exc |-> exc, args |-> args, msg |-> o.msg,
              anchors |-> o.anchors]
  /\ UNCHANGED conf

Commit(op, o, exc) == CommitCall(op, o, exc, <<>>)

CanCall == BagCardinality(issued) < MaxCmds

(***************************************************************************)
(* Actions: one per method the caller may call.                            *)
(***************************************************************************)
\* the replies a call of create may receive: none is read once the machine
\* is created, and the probe is made only after snap-guest exits with 0
CreateReplies ==
  IF _created THEN {<<NoResult, NoResult>>}
  ELSE {<<r1, r2>> : r1 \in {SSHCommandResult(0, <<>>)}, r2 \in ProbeResults}
         \cup {<<r1, NoResult>> : r1 \in Results \ {SSHCommandResult(0, <<>>)}}

\* the replies a call of destroy may receive: to the unregistration (made
\* only when subscribed), to virsh destroy, to virsh undefine and to rm
DestroyReplies ==
  IF ~_created THEN {[i \in 1..4 |-> NoResult]}
  ELSE {rs \in [1..4 -> Results] : ~_subscribed => rs[1].return_code = 0}

Call_create ==
  /\ CanCall
  /\ \E rr \in CreateReplies :
       Commit("create", create(Self, rr[1], rr[2]), "none")
  /\ UNCHANGED scope

Call_destroy ==
  /\ CanCall
  /\ \E rs \in DestroyReplies : Commit("destroy", destroy(Self, rs), "none")
  /\ UNCHANGED scope

Call_run ==
  /\ CanCall
  /\ \E r \in Results : Commit("run", run(Self, <<"ls">>, r), "none")
  /\ UNCHANGED scope

Call_get ==
  /\ CanCall
  /\ Commit("get", get(Self, <<"/", "remote">>, <<"/", "local">>), "none")
  /\ UNCHANGED scope

Call_put ==
  /\ CanCall
  /\ Commit("put", put(Self, <<"/", "local">>, <<"/", "remote">>), "none")
  /\ UNCHANGED scope

Call_register_contenthost ==
  /\ CanCall
  /\ \E activation_key \in {None, <<"ak">>}, lce \in {None, <<"lce">>},
        force \in BOOLEAN, releasever \in {None, <<"7">>}, r \in Results :
       CommitCall("register_contenthost",
                  register_contenthost(Self, <<"Org1">>, activation_key, lce,
                                       force, releasever, r), "none",
                  [org |-> <<"Org1">>, activation_key |-> activation_key,
                   lce |-> lce, force |-> force, releasever |-> releasever])
  /\ UNCHANGED scope

Call_unregister ==
  /\ CanCall
  /\ \E r \in Results : Commit("unregister", unregister(Self, r), "none")
  /\ UNCHANGED scope

\* with vm: ... is entered
Enter ==
  /\ scope = "outside"
  /\ CanCall
  /\ \E rr \in CreateReplies :
       LET o == __enter__(Self, rr[1], rr[2])
       IN  /\ Commit("__enter__", o, "none")
           /\ scope' = IF o.raised = "none" THEN "inside" ELSE "outside"

\* the body of the with statement is left, normally or by an exception
Exit ==
  /\ scope = "inside"
  /\ \E exc \in {"none", "error"}, rs \in DestroyReplies :
       /\ Commit("__exit__", __exit__(Self, exc, rs), exc)
       /\ scope' = "outside"

Next ==
  \/ Call_create
  \/ Call_destroy
  \/ Call_run
  \/ Call_get
  \/ Call_put
  \/ Call_register_contenthost
  \/ Call_unregister
  \/ Enter
  \/ Exit

Spec == Init /\ [][Next]_vars

(***************************************************************************)
(* The helpers, called on a machine that create has or has not created.    *)
(***************************************************************************)
\* the reply of a command that succeeds, and n replies that are not read
Ok == SSHCommandResult(0, <<>>)
Unread(n) == [i \in 1..n |-> NoResult]

\* the replies to the n commands of a helper that reads them all once the
\* machine is created
HelperReplies(n) == IF ~_created THEN {Unread(n)} ELSE [1..n -> Results]

\* the replies configure_puppet may receive: it stops at yum install puppet
\* when that fails
PuppetReplies ==
  IF ~_created THEN {Unread(6)}
  ELSE {<<r1, r2>> \o Unread(4) : r1 \in Results, r2 \in Results \ {Ok}}
         \cup {<<r1, Ok>> \o rs : r1 \in Results, rs \in [1..4 -> Results]}

\* the replies configure_rhai_client may receive: none when the registration
\* is not reached or not made, only that of the registration when the
\* repositories are wanting, and none after a checked command that fails
RhaiReplies(activation_key, rhel_distro, k) ==
  IF ~_created \/ k # "none" \/ activation_key = None THEN {Unread(6)}
  ELSE IF rhel_distro # DISTRO_RHEL6
    THEN {<<r1>> \o Unread(5) : r1 \in Results}
  ELSE LET first == [1..3 -> Results]
           Fail == Results \ {Ok}
       IN  {rs \o <<r4>> \o Unread(2) : rs \in first, r4 \in Fail}
             \cup {rs \o <<Ok, r5>> \o Unread(1) : rs \in first, r5 \in Fail}
             \cup {rs \o <<Ok, Ok, r6>> : rs \in first, r6 \in Results}

\* create with the replies narrowed to a failing snap-guest, a failing probe
\* and a probe that finds the address
PlainCreateReplies ==
  IF _created THEN {<<NoResult, NoResult>>}
  ELSE {<<SSHCommandResult(1, <<>>), NoResult>>,
        <<Ok, SSHCommandResult(1, <<>>)>>,
        <<Ok, SSHCommandResult(0, <<<<"(">>, <<"1">>, <<")">>>>)>>}

Call_create_plain ==
  /\ CanCall
  /\ \E rr \in PlainCreateReplies :
       Commit("create", create(Self, rr[1], rr[2]), "none")
  /\ UNCHANGED scope

Call_download_install_rpm ==
  /\ \E rs \in HelperReplies(3) :
       Commit("download_install_rpm",
              download_install_rpm(Self, <<"http://repo/custom">>,
                                   <<"walrus">>, rs), "none")
  /\ UNCHANGED scope

Call_install_katello_agent ==
  /\ \E rs \in HelperReplies(2) :
       Commit("install_katello_agent", install_katello_agent(Self, rs),
              "none")
  /\ UNCHANGED scope

Call_configure_puppet ==
  /\ \E rhel_repo \in {None, rhel6_repo}, rs \in PuppetReplies :
       Commit("configure_puppet", configure_puppet(Self, rhel_repo, rs),
              "none")
  /\ UNCHANGED scope

Call_configure_rhai_client ==
  /\ \E activation_key \in {None, <<"ak">>},
        rhel_distro \in {DISTRO_RHEL6, DISTRO_RHEL7, <<"fedora">>},
        k \in {"none", "AssertionError"} :
       \E rs \in RhaiReplies(activation_key, rhel_distro, k) :
         CommitCall("configure_rhai_client",
                    configure_rhai_client(Self, activation_key, <<"Org1">>,
                                          rhel_distro, k, rs), "none",
                    [activation_key |-> activation_key, org |-> <<"Org1">>,
                     rhel_distro |-> rhel_distro])
  /\ UNCHANGED scope

Call_install_katello_ca ==
  /\ \E k \in {"none", "AssertionError"} :
       Commit("install_katello_ca", install_katello_ca(Self, k), "none")
  /\ UNCHANGED scope

Call_remove_katello_ca ==
  /\ \E k \in {"none", "AssertionError"} :
       Commit("remove_katello_ca", remove_katello_ca(Self, k), "none")
  /\ UNCHANGED scope

\* the replies to awk: an exit code and no line or one line of output
AwkResults ==
  {SSHCommandResult(rc, out) : rc \in RC, out \in {<<>>, <<<<"3">>>>}}

Call_execute_foreman_scap_client ==
  /\ \E policy_id \in {None, <<"7">>}, r1 \in AwkResults, r2 \in Results :
       CommitCall("execute_foreman_scap_client",
                  execute_foreman_scap_client(Self, policy_id, <<r1, r2>>),
                  "none", [policy_id |-> policy_id])
  /\ UNCHANGED scope

\* the helpers are called on the default machine
InitHelpers == Constructed(DefaultArgs, DefaultSettings)

NextHelpers ==
  \/ Call_create_plain
  \/ Call_download_install_rpm
  \/ Call_install_katello_agent
  \/ Call_configure_puppet
  \/ Call_configure_rhai_client
  \/ Call_install_katello_ca
  \/ Call_remove_katello_ca
  \/ Call_execute_foreman_scap_client

SpecHelpers == InitHelpers /\ [][NextHelpers]_vars

(***************************************************************************)
(* Registration on the default machine: create, register, unregister and   *)
(* destroy.                                                                *)
(***************************************************************************)
NextRegistration ==
  \/ Call_create_plain
  \/ Call_register_contenthost
  \/ Call_unregister
  \/ Call_destroy

SpecRegistration == InitHelpers /\ [][NextRegistration]_vars

(***************************************************************************)
(* Names: machines constructed with or without host name, domain, tag and  *)
(* target image, with or without an image directory, on a provisioning     *)
(* server whose name has a domain or has none, are created and destroyed.  *)
(***************************************************************************)
NameArgs ==
  {[DefaultArgs EXCEPT !.hostname = h, !.domain = d, !.tag = tag,
                       !.target_image = ti] :
     h \in {None, <<"client">>}, d \in {None, <<"lab">>},
     tag \in {None, <<"t">>}, ti \in {None, <<"img">>}}

NameSettings ==
  {DefaultSettings, [DefaultSettings EXCEPT !.image_dir = None],
   [DefaultSettings EXCEPT !.provisioning_server = <<"prov">>]}

InitNames == \E a \in NameArgs, st \in NameSettings : Constructed(a, st)

NextNames ==
  \/ Call_create_plain
  \/ Call_destroy

SpecNames == InitNames /\ [][NextNames]_vars

(***************************************************************************)
(* Construction: VirtualMachine(...) is called with arguments and settings *)
(* drawn from the sets below.  Before the call there is no machine: last   *)
(* holds the arguments of the pending call and the fields are unset.  A    *)
(* call that raises leaves no machine behind.                              *)
(***************************************************************************)
CtorDistros ==
  {None, <<"rhel6">>, <<"rhel7">>, <<"rhel66">>, <<"rhel71">>, <<"fedora">>}

CtorServers == {None, <<>>, <<"prov", ".", "example">>}

CtorArgs ==
  {[DefaultArgs EXCEPT !.distro = d, !.provisioning_server = ps,
                       !.image_dir = dir] :
     d \in CtorDistros, ps \in CtorServers, dir \in {None, <<"/", "tmp">>}}

CtorSettings ==
  {[DefaultSettings EXCEPT !.image_el7 = el7, !.provisioning_server = ps,
                           !.image_dir = dir] :
     el7 \in {None, <<"rhel71">>},
     ps \in {None, <<>>, <<"other", ".", "example">>},
     dir \in {None, <<"/", "images">>}}

InitCtor ==
  /\ cpu = None /\ ram = None /\ distro = None
  /\ provisioning_server = None /\ image_dir = None
  /\ _hostname = None /\ _domain = None /\ _target_image = None
  /\ ip_addr = None /\ _created = FALSE /\ _subscribed = FALSE
  /\ issued = EmptyBag
  /\ scope = "outside"
  /\ peer = <<>>
  /\ \E a \in CtorArgs, st \in CtorSettings :
       last = [op |-> "pending", raised |-> "none", cmds |-> <<>>,
               replies |-> <<>>, ret |-> NoResult, calls |-> <<>>,
               exc |-> "none", args |-> [a |-> a, st |-> st],
               msg |-> <<>>, anchors |-> <<>>]

Construct ==
  /\ last.op = "pending"
  /\ LET o == __init__(last.args.a, last.args.st)
     IN  /\ last' = [last EXCEPT !.op = "__init__", !.raised = o.raised,
                                 !.calls = <<"__init__">>]
         /\ IF o.raised = "none"
              THEN /\ cpu' = o.self.cpu
                   /\ ram' = o.self.ram
                   /\ distro' = o.self.distro
                   /\ provisioning_server' = o.self.provisioning_server
                   /\ image_dir' = o.self.image_dir
                   /\ _hostname' = o.self._hostname
                   /\ _domain' = o.self._domain
                   /\ _target_image' = o.self._target_image
                   /\ UNCHANGED peer
              ELSE UNCHANGED conf
  /\ UNCHANGED <<ip_addr, _created, _subscribed, issued, scope>>

NextCtor == Construct

SpecCtor == InitCtor /\ [][NextCtor]_vars

(***************************************************************************)
(* Two machines: VirtualMachine(...) is called twice, with arguments that  *)
(* the configured settings accept; the objects are alive together, so      *)
(* id() tells them apart.  The second machine is kept in peer (<<>> where  *)
(* there is one machine only).                                             *)
(***************************************************************************)
PairArgs(id) ==
  {[DefaultArgs EXCEPT !.tag = tag, !.target_image = ti, !.hostname = h,
                       !.id = id] :
     tag \in {None, <<"t">>}, ti \in {None, <<"img">>},
     h \in {None, <<"client">>}}

InitPair ==
  /\ cpu = None /\ ram = None /\ distro = None
  /\ provisioning_server = None /\ image_dir = None
  /\ _hostname = None /\ _domain = None /\ _target_image = None
  /\ ip_addr = None /\ _created = FALSE /\ _subscribed = FALSE
  /\ issued = EmptyBag
  /\ scope = "outside"
  /\ peer = <<>>
  /\ \E a \in PairArgs("1"), b \in PairArgs("2") :
       last = [op |-> "pending", raised |-> "none", cmds |-> <<>>,
               replies |-> <<>>, ret |-> NoResult, calls |-> <<>>,
               exc |-> "none",
               args |-> [a |-> a, b |-> b, st |-> DefaultSettings],
               msg |-> <<>>, anchors |-> <<>>]

ConstructPair ==
  /\ last.op = "pending"
  /\ LET o == __init__(last.args.a, last.args.st)
         q == __init__(last.args.b, last.args.st)
     IN  /\ o.raised = "none" /\ q.raised = "none"
         /\ last' = [last EXCEPT !.op = "__init__",
                                 !.calls = <<"__init__", "__init__">>]
         /\ cpu' = o.self.cpu
         /\ ram' = o.self.ram
         /\ distro' = o.self.distro
         /\ provisioning_server' = o.self.provisioning_server
         /\ image_dir' = o.self.image_dir
         /\ _hostname' = o.self._hostname
         /\ _domain' = o.self._domain
         /\ _target_image' = o.self._target_image
         /\ peer' = q.self
  /\ UNCHANGED <<ip_addr, _created, _subscribed, issued, scope>>

NextPair == ConstructPair

SpecPair == InitPair /\ [][NextPair]_vars

(***************************************************************************)
(* Observations the properties are stated on.                              *)
(***************************************************************************)
\* the command c starts with the token prog
IsCmd(c, prog) == c.cmd # <<>> /\ Head(c.cmd) = prog

\* how many commands starting with prog the provisioning server received
RECURSIVE CountIn(_, _)
CountIn(S, prog) ==
  IF S = {} THEN 0
  ELSE LET c == CHOOSE x \in S : TRUE
       IN  (IF IsCmd(c, prog) THEN CopiesIn(c, issued) ELSE 0)
             + CountIn(S \ {c}, prog)

Issued(prog) == CountIn(BagToSet(issued), prog)

\* how many of the remote calls of the last method call start with prog
LastIssued(prog) ==
  Cardinality({i \in 1..Len(last.cmds) : IsCmd(last.cmds[i], prog)})

\* destroy has torn the machine down at least once
DestroyRan == Issued("virsh destroy ") > 0

\* the last call was one of run, get, put
LastIsRunOrTransfer == last.op \in {"run", "get", "put"}

\* the last call of create got as far as reading the output of the probe
ProbeRead ==
  /\ last.op = "create"
  /\ Len(last.replies) = 2
  /\ last.replies[1].return_code = 0
  /\ last.replies[2].return_code = 0

\* the concatenated output of the probe of the last call of create
ProbeOutput == Join(last.replies[2].stdout)

\* out holds a parenthesized token: a '(' with a ')' somewhere after it
HasParenToken(out) ==
  \E i \in 1..Len(out) : \E j \in (i + 1)..Len(out) :
    out[i] = "(" /\ out[j] = ")"

(***************************************************************************)
(* C1..C10                                                                 *)
(***************************************************************************)
\* C1: create() is idempotent.  A call of create on a machine that is
\* already created makes no remote call, raises nothing and changes neither
\* the address nor the flags; a call that creates the machine runs snap-guest
\* exactly once.  So two calls in a row run snap-guest once.
C1_CreateIdempotent ==
  [][ last'.op = "create" =>
        IF _created
          THEN /\ last'.cmds = <<>>
               /\ last'.raised = "none"
               /\ issued' = issued
               /\ ip_addr' = ip_addr
               /\ _created' = _created
               /\ _subscribed' = _subscribed
          ELSE _created' =>
                 Cardinality({i \in 1..Len(last'.cmds) :
                                IsCmd(last'.cmds[i], "snap-guest")}) = 1
    ]_vars

\* create was called on a created machine whose creation ran snap-guest once
C1_Witness ==
  /\ _created
  /\ last.op = "create"
  /\ last.cmds = <<>>
  /\ Issued("snap-guest") = 1

\* C2: destroy() on a machine that was never created, also one whose create
\* failed, makes no remote call, raises nothing and changes no field.
C2_DestroyBeforeCreate ==
  [][ (~_created /\ last'.op = "destroy") =>
        /\ last'.cmds = <<>>
        /\ last'.raised = "none"
        /\ issued' = issued
        /\ ip_addr' = ip_addr
        /\ _created' = _created
        /\ _subscribed' = _subscribed
        /\ UNCHANGED conf
    ]_vars

\* destroy was called after a call of create that failed
C2_Witness ==
  /\ ~_created
  /\ last.op = "destroy"
  /\ last.raised = "none"
  /\ Issued("snap-guest") > 0

\* C3: once destroy() has run on a created machine the machine is no longer
\* created, whatever the destroy commands returned: every later run, get or
\* put raises VirtualMachineError and makes no remote call.  Stated for the
\* machines that have an image directory, on which destroy raises nothing.
C3_DestroyedIsTerminal ==
  (image_dir # None /\ DestroyRan) =>
    /\ ~_created
    /\ LastIsRunOrTransfer =>
         (last.raised = VirtualMachineError /\ last.cmds = <<>>)

\* C4: destroy() is idempotent: whatever is called, the provisioning server
\* receives each of virsh destroy, virsh undefine and rm at most once.
\* Stated for the machines that have an image directory.
C4_DestroyIdempotent ==
  image_dir # None =>
    /\ Issued("virsh destroy ") <= 1
    /\ Issued("virsh undefine ") <= 1
    /\ Issued("rm ") <= 1

\* C5: run(), get() and put() on a machine that is not created raise
\* VirtualMachineError and make no remote call, upload or download.
C5_NotCreatedRaises ==
  (LastIsRunOrTransfer /\ ~_created) =>
    (last.raised = VirtualMachineError /\ last.cmds = <<>>)

\* put was called on a machine whose create failed
C5_Witness ==
  /\ ~_created
  /\ last.op = "put"
  /\ last.raised = VirtualMachineError
  /\ Issued("snap-guest") > 0

\* C6: when the with statement is left, by the end of its body or by an
\* exception, destroy has been called and the machine is no longer created.
\* Stated for the machines that have an image directory.
C6_ScopeDestroys ==
  (image_dir # None /\ last.op = "__exit__") =>
    /\ \E i \in 1..Len(last.calls) : last.calls[i] = "destroy"
    /\ ~_created

\* C7: when the with statement is over (left, or not entered because create
\* raised) and snap-guest had exited with 0, the provisioning server has
\* received virsh destroy, virsh undefine and rm.  Stated for the machines
\* that have an image directory.
C7_NoOrphan ==
  ( /\ image_dir # None
    /\ \/ /\ last.op = "__enter__"
          /\ last.raised # "none"
          /\ Len(last.replies) >= 1
          /\ last.replies[1].return_code = 0
       \/ /\ last.op = "__exit__"
          /\ _created ) =>
    /\ Issued("virsh destroy ") > 0
    /\ Issued("virsh undefine ") > 0
    /\ Issued("rm ") > 0

\* C8: when snap-guest or the probe exits with a code other than 0, create
\* raises VirtualMachineError, the probe is not run after a failed
\* snap-guest, and the machine is still not created and has no address.
C8_CreateFailsOnExitCode ==
  (last.op = "create"
     /\ \E i \in 1..Len(last.replies) : last.replies[i].return_code # 0) =>
    /\ last.raised = VirtualMachineError
    /\ ~_created
    /\ ip_addr = None
    /\ last.replies[1].return_code # 0 =>
         (Len(last.cmds) = 1 /\ LastIssued("ping -c 1 ") = 0)

\* create ran snap-guest with exit code 0 and the probe failed
C8_Witness ==
  /\ last.op = "create"
  /\ Len(last.replies) = 2
  /\ last.replies[1].return_code = 0
  /\ last.replies[2].return_code # 0
  /\ last.raised = VirtualMachineError

\* C9: when the output of the probe holds no parenthesized token, create
\* raises VirtualMachineError and the machine stays not created, without
\* an address.
C9_NoTokenRaises ==
  (ProbeRead /\ ~HasParenToken(ProbeOutput)) =>
    /\ last.raised = VirtualMachineError
    /\ ~_created
    /\ ip_addr = None

\* C10: after a successful create the address is the text between the first
\* '(' of the probe output and the first ')' that follows it.
C10_AddressIsFirstToken ==
  (ProbeRead /\ last.raised = "none") =>
    LET out == ProbeOutput
        i == Find(out, "(", 1)
        j == Find(out, ")", i + 1)
    IN  /\ i > 0
        /\ j > 0
        /\ ip_addr = SubSeq(out, i + 1, j - 1)

(***************************************************************************)
(* C11..C20                                                                *)
(***************************************************************************)
\* the life cycle state of the machine: Destroyed once destroy has torn it
\* down, Created once create has succeeded, Uninitialized before
LifecycleState ==
  IF DestroyRan THEN "Destroyed"
  ELSE IF _created THEN "Created"
  ELSE "Uninitialized"

\* the first tokens of the remote calls of the last method call
LastProgs == [i \in 1..Len(last.cmds) |-> Head(last.cmds[i].cmd)]

\* C11: the address is set exactly when the machine is in the Created state:
\* not before a successful create, and no longer once it is destroyed.
\* Stated for the machines that have an image directory.
C11_AddressIffCreated ==
  image_dir # None =>
    ((ip_addr # None) <=> (LifecycleState = "Created"))

\* C12: destroy() on a created machine raises nothing, whatever its commands
\* return and also when there is no image directory, and has sent virsh
\* destroy, virsh undefine and rm.
C12_DestroyNeverFails ==
  (last.op = "destroy" /\ _created) =>
    /\ last.raised = "none"
    /\ LastIssued("virsh destroy ") = 1
    /\ LastIssued("virsh undefine ") = 1
    /\ LastIssued("rm ") = 1

\* C13: destroy() on a created machine sends, whatever the exit codes, the
\* unregistration first exactly when the machine is subscribed, then virsh
\* destroy, then virsh undefine, then rm.
C13_DestroyOrder ==
  (last.op = "destroy" /\ _created) =>
    LastProgs =
      (IF _subscribed THEN <<"subscription-manager unregister">> ELSE <<>>)
        \o <<"virsh destroy ", "virsh undefine ", "rm ">>

\* the last method call was register_contenthost
LastIsRegister == last.op = "register_contenthost"

\* C15: register_contenthost called with neither an activation key nor a
\* lifecycle environment raises VirtualMachineError, sends no command and
\* leaves _subscribed as it was, whatever the other arguments are and whether
\* the machine is created or not.
C15_NoStrategyRaises ==
  [][(LastIsRegister' /\ last'.args.activation_key = None
        /\ last'.args.lce = None)
       => /\ last'.raised = VirtualMachineError
          /\ last'.cmds = <<>>
          /\ _subscribed' = _subscribed]_vars

\* register_contenthost has raised for want of a strategy on a created and
\* subscribed machine, called with force and a release version
C15_Witness ==
  /\ LastIsRegister
  /\ last.args.activation_key = None /\ last.args.lce = None
  /\ last.args.force /\ last.args.releasever # None
  /\ last.raised = VirtualMachineError
  /\ _created /\ _subscribed

\* the last method call was register_contenthost with a strategy
LastIsRegisterWithStrategy ==
  LastIsRegister /\ (last.args.activation_key # None \/ last.args.lce # None)

\* C16 as stated: register_contenthost with a strategy runs exactly one
\* command and returns its result.
C16_RegisterRunsOneCommand ==
  LastIsRegisterWithStrategy =>
    /\ Len(last.cmds) = 1
    /\ last.ret = last.replies[1]

\* C16: on a created machine, register_contenthost with a strategy runs
\* exactly one command, the registration, returns that command's result
\* unchanged, sets _subscribed when the exit code is 0 and leaves it as it
\* was otherwise.
C16_RegisterOnCreated ==
  [][(LastIsRegisterWithStrategy' /\ _created)
       => /\ last'.raised = "none"
          /\ Len(last'.cmds) = 1
          /\ IsCmd(last'.cmds[1], "subscription-manager register --org ")
          /\ last'.cmds[1].hostname = ip_addr
          /\ last'.ret = last'.replies[1]
          /\ _subscribed' = IF last'.ret.return_code = 0
                              THEN TRUE ELSE _subscribed]_vars

\* a registration with a lifecycle environment failed with a non-zero exit
\* code on a created machine that was not subscribed, and left it so
C16_Witness ==
  /\ LastIsRegisterWithStrategy
  /\ last.args.activation_key = None
  /\ _created
  /\ Len(last.cmds) = 1
  /\ last.ret.return_code # 0
  /\ ~_subscribed

\* C17: _subscribed is true only on a machine whose create has succeeded.
C17_SubscribedOnlyIfCreated == _subscribed => _created

\* a registration with an activation key has succeeded and the machine, which
\* is created, is subscribed
C17_Witness ==
  /\ LastIsRegisterWithStrategy
  /\ last.args.activation_key # None
  /\ last.ret.return_code = 0
  /\ _subscribed
  /\ _created

\* the constructor has been called
ConstructionTried == last.op = "__init__"

\* the provisioning server a call of the constructor has at hand: the
\* argument if one is given, the configured one otherwise
HostAtHand ==
  IF last.args.a.provisioning_server # None
    THEN last.args.a.provisioning_server
    ELSE last.args.st.provisioning_server

\* the image profile the constructor stores in self.distro before it
\* validates it
ImageProfile == __init__(last.args.a, last.args.st).self.distro

\* C18: when both image identifiers are configured and a non-empty
\* provisioning server is at hand, construction succeeds when the image
\* profile is one of the two configured identifiers and raises
\* VirtualMachineError for every other profile.
C18_SupportedProfiles ==
  (/\ ConstructionTried
   /\ last.args.st.image_el6 # None /\ last.args.st.image_el7 # None
   /\ HostAtHand # None /\ HostAtHand # <<>>)
    => IF ImageProfile \in {last.args.st.image_el6, last.args.st.image_el7}
         THEN last.raised = "none" /\ distro = ImageProfile
         ELSE last.raised = VirtualMachineError

\* a machine was constructed from the alias rhel6 and has the configured
\* identifier as its distro
C18_Witness ==
  /\ ConstructionTried
  /\ last.args.a.distro = <<"rhel6">>
  /\ last.args.st.image_el7 # None
  /\ last.raised = "none"
  /\ distro = last.args.st.image_el6

\* C19: construction raises VirtualMachineError when no distro is passed and
\* the settings have no default image identifier.
C19_NoProfileRaises ==
  (/\ ConstructionTried
   /\ last.args.a.distro = None
   /\ last.args.st.image_el7 = None)
    => last.raised = VirtualMachineError

\* C20: construction raises VirtualMachineError whenever the provisioning
\* server at hand is None or empty, and the provisioning server of a
\* constructed machine is the one at hand, neither None nor empty.
C20_ProvisioningServer ==
  ConstructionTried =>
    /\ (HostAtHand = None \/ HostAtHand = <<>>)
         => last.raised = VirtualMachineError
    /\ last.raised = "none"
         => /\ provisioning_server = HostAtHand
            /\ provisioning_server # None
            /\ provisioning_server # <<>>

\* a machine was constructed with a provisioning server given as argument
\* while the settings name another
C20_Witness ==
  /\ ConstructionTried
  /\ last.raised = "none"
  /\ last.args.a.provisioning_server # None
  /\ last.args.st.provisioning_server # None
  /\ last.args.st.provisioning_server # <<>>
  /\ provisioning_server = last.args.a.provisioning_server
  /\ provisioning_server # last.args.st.provisioning_server

\* the helpers that run several commands
Helpers ==
  {"download_install_rpm", "install_katello_agent", "configure_puppet",
   "configure_rhai_client"}

LastIsHelper == last.op \in Helpers

\* the exit code of the i-th command of the last method call
LastCode(i) == last.replies[i].return_code

CheckedSteps ==
  [download_install_rpm |-> {3}, install_katello_agent |-> {2},
   configure_puppet |-> {2}, configure_rhai_client |-> {4, 5, 6}]

AllSteps ==
  [download_install_rpm |-> 3, install_katello_agent |-> 2,
   configure_puppet |-> 6, configure_rhai_client |-> 6]

\* the message a helper raises VirtualMachineError with when its i-th
\* command fails
StepMessage(op, i) ==
  CASE op = "download_install_rpm" -> <<"Failed to install ", "walrus", " rpm.">>
    [] op = "install_katello_agent" -> <<"Failed to install katello-agent">>
    [] op = "configure_puppet" -> <<"Failed to install the puppet rpm">>
    [] op = "configure_rhai_client" /\ i \in {4, 5} ->
         <<"Unable to install redhat-access-insights package">>
    [] op = "configure_rhai_client" /\ i = 6 ->
         <<"Unable to register client to Access Insights through ",
           "Satellite">>

LastIsRhai == last.op = "configure_rhai_client"

\* the methods configure_rhai_client enters and the programs it runs when it
\* runs to its end
RhaiCalls ==
  <<"configure_rhai_client", "install_katello_ca",
    "helpers.install_katello_ca", "register_contenthost", "run",
    "configure_rhel_repo", "run", "run", "run", "run", "run">>

RhaiProgs ==
  <<"subscription-manager register --org ",
    "wget -O /etc/yum.repos.d/rhel.repo ",
    "wget -O /etc/yum.repos.d/insights.repo ",
    "yum install -y ", "rpm -qi ", "redhat-access-insights --register">>

\* s is the beginning of t
IsPrefix(s, t) == Len(s) <= Len(t) /\ s = SubSeq(t, 1, Len(s))

C22_AnchorOnCreated ==
  last.op \in {"install_katello_ca", "remove_katello_ca"} =>
    /\ Len(last.anchors) = 1
    /\ last.anchors[1].hostname = ip_addr
    /\ last.anchors[1].hostname # None
    /\ _created
    /\ last.anchors[1].raised = "AssertionError"
         => last.raised = VirtualMachineError

\* two machines have been constructed
PairConstructed == last.op = "__init__" /\ peer # <<>>

\* C23: two machines have distinct generated image tags, hence distinct
\* image names and host names, whatever tag and target image they were
\* constructed with.
C23_DistinctTags ==
  PairConstructed =>
    /\ _target_image # peer._target_image
    /\ target_image(Self).val # target_image(peer).val
    /\ (_hostname = None /\ peer._hostname = None)
         => hostname(Self).val # hostname(peer).val

\* C24: every remote command of a method call goes to the address of the
\* machine itself or, in create and destroy, to its provisioning server with
\* the name of the machine itself.
C24_OwnTargetsOnly ==
  \A i \in 1..Len(last.cmds) :
    \/ last.cmds[i].hostname = ip_addr
    \/ /\ last.op \in {"create", "destroy"}
       /\ last.cmds[i].hostname = provisioning_server
       /\ \E j \in 1..Len(last.cmds[i].cmd) :
            SubSeq(last.cmds[i].cmd, j, j + Len(_target_image) - 1)
              = _target_image

\* C25: unregister() goes through run() with the one unregistration command
\* (which run() sends when the machine is created) and leaves _subscribed as
\* it was whatever the exit code is; destroy() leaves it as it was too.
C25_UnregisterKeepsFlag ==
  [][/\ last'.op = "unregister"
          => /\ _subscribed' = _subscribed
             /\ last'.calls = <<"unregister", "run">>
             /\ IF _created
                  THEN /\ last'.raised = "none"
                       /\ Len(last'.cmds) = 1
                       /\ last'.cmds[1]
                            = ssh_command(<<"subscription-manager unregister">>,
                                          ip_addr)
                       /\ last'.ret = last'.replies[1]
                  ELSE /\ last'.raised = VirtualMachineError
                       /\ last'.cmds = <<>>
     /\ last'.op = "destroy" => _subscribed' = _subscribed]_vars

\* destroy has unregistered a subscribed machine, the command returned 0, and
\* the machine still counts as subscribed
C25_Witness ==
  /\ last.op = "destroy"
  /\ _subscribed
  /\ LastIssued("subscription-manager unregister") = 1
  /\ last.replies[1].return_code = 0

\* C26: on a created machine execute_foreman_scap_client runs the scan and
\* raises VirtualMachineError when the scan returns non-zero, and returns
\* otherwise, whether the policy id is passed or read with awk (which is
\* taken to print it).
C26_ScanDecides ==
  (/\ last.op = "execute_foreman_scap_client"
   /\ _created
   /\ last.args.policy_id = None => last.replies[1].stdout # <<>>) =>
    /\ LastIssued("foreman_scap_client ") = 1
    /\ LET i == CHOOSE j \in 1..Len(last.cmds) :
                  IsCmd(last.cmds[j], "foreman_scap_client ")
       IN  IF LastCode(i) # 0
             THEN last.raised = VirtualMachineError
             ELSE last.raised = "none"

\* the name a snap-guest command gives after -t
SnapTarget(c) ==
  SubSeq(c.cmd, Find(c.cmd, " -t ", 1) + 1, Find(c.cmd, " -m ", 1) - 1)

\* C27: the name given to snap-guest by create is the name virsh destroy and
\* virsh undefine are given by destroy, and the file removed is that name
\* with .img in the image directory, with or without a host name.
C27_SameMachine ==
  \A c \in BagToSet(issued), e \in BagToSet(issued) :
    IsCmd(c, "snap-guest") =>
      /\ IsCmd(e, "virsh destroy ") => Tail(e.cmd) = SnapTarget(c)
      /\ IsCmd(e, "virsh undefine ") => Tail(e.cmd) = SnapTarget(c)
      /\ IsCmd(e, "rm ")
           => Tail(e.cmd) = image_dir \o <<"/">> \o SnapTarget(c) \o <<".img">>

\* a machine with a host name and a tag was created and destroyed, image
\* file included
C27_Witness ==
  /\ last.op = "destroy"
  /\ _hostname # None
  /\ _target_image = <<"t", "img">>
  /\ Issued("snap-guest") > 0
  /\ LastIssued("virsh destroy ") = 1
  /\ LastIssued("rm ") = 1

\* no domain is given and the name of the provisioning server has no "."
NoDomain == _domain = None /\ Find(provisioning_server, ".", 1) = 0

\* C28: a machine constructed without domain on a provisioning server whose
\* name has no "." is never created: create raises VirtualMachineError
\* before any command is sent, also when a host name was given.
C28_NoDomainNoCreate ==
  NoDomain =>
    /\ ~_created
    /\ ip_addr = None
    /\ issued = EmptyBag
    /\ last.op = "create"
         => last.raised = VirtualMachineError /\ last.cmds = <<>>

\* create has raised on a machine that has a host name but no domain
C28_Witness ==
  /\ NoDomain
  /\ _hostname # None
  /\ last.op = "create"
  /\ last.raised = VirtualMachineError

====
